---------------------------- MODULE Spec2Model ----------------------------
(***************************************************************************)
(* A model of mcmod, a command-line helper for Minecraft mod projects.     *)
(*                                                                         *)
(*   scripts/info.py     the `info` command: read mcmod.info and           *)
(*                       build.gradle, change one field, write both back,  *)
(*                       and on a module id change rename the source and   *)
(*                       asset directories, regenerate ModInfo.java and    *)
(*                       rewrite the package line of every .java file in   *)
(*                       a multiprocessing pool (edit_java_package).       *)
(*   scripts/coremod.py  `coremod enable C` / `coremod remove`, through    *)
(*   modules/mcmod.py    write_build_gradle; read_version; find_root.      *)
(*   scripts/build.py    `build`, which names the jar with read_version.   *)
(*                                                                         *)
(* Text is modelled as a sequence of tokens (strings).  A token is either  *)
(* a single character (the characters of names and values, " ", "=", the   *)
(* quote characters, "/", ".") or a fixed piece of text that the program   *)
(* only ever tests as a line prefix or writes as a whole ("version",       *)
(* "// coremod", "dependencies {", "package ", ...).  Values that come     *)
(* from the command line are made of single-character tokens only, so a    *)
(* prefix test on the first token of a line is the program's startswith.   *)
(* A file is a sequence of lines, each line a sequence of tokens (the      *)
(* newline that ends a line is implicit).                                  *)
(***************************************************************************)
EXTENDS Integers, Sequences, FiniteSets, TLC

VARIABLES
    \* ---- find_root (modules/mcmod.py) ----
    fr_pc,        \* "idle" | "loop" | "returned" | "exited"
    fr_fs,        \* the directories (absolute paths) that hold a build.gradle
    fr_start,     \* abspath of the starting directory
    fr_cur,       \* cur_path
    fr_iters      \* how many times the loop body has run

fr_vars == <<fr_pc, fr_fs, fr_start, fr_cur, fr_iters>>

VARIABLES
    \* ---- the project on disk ----
    mcmod_info,   \* src/main/resources/mcmod.info: [exists, doc]
    build_gradle, \* build.gradle: a sequence of lines
    src,          \* src/main/java/com/piston/mc/<id>: id -> (file -> content)
    assets        \* src/main/resources/assets/<id>:   id -> (file -> content)

fs_vars == <<mcmod_info, build_gradle, src, assets>>

VARIABLES
    \* ---- coremod.py ----
    cm_ops,       \* how many coremod commands have run
    cm_last       \* the last coremod command: [op, cls, before]

cm_vars == <<cm_ops, cm_last>>

VARIABLES
    \* ---- info.py, build.py ----
    pc,           \* where the `info` run is: "idle" before the first run,
                  \* "read" .. "pool" during it, "exited" after it
    argv,         \* sys.argv of the run: [argc, field, value]
    loc,          \* the script's variables (name, ..., version, modid, ...)
    exit_code,    \* the exit code of the finished run
    printed,      \* what query mode printed
    tasks,        \* the pool's tasks: file -> [package, pc]
    jar,          \* the jar name `build` printed
    \* ---- history, for stating properties ----
    fs0,          \* the project on disk when the run started
    walked,       \* the renamed source tree when the tasks were collected
    writers,      \* file -> the tasks that created, wrote or removed it
    runs,         \* how many `info` runs have started
    prev          \* the run before: [argv, exit_code]

info_vars == <<pc, argv, loc, exit_code, printed, tasks, jar,
               fs0, walked, writers, runs, prev>>

vars == <<fr_vars, fs_vars, cm_vars, info_vars>>

\* ------------------------------------------------------------------------
\* Bounds of the model
\* ------------------------------------------------------------------------

\* deepest starting directory given to find_root
MaxDepth == 2
\* loop iterations of find_root that the model follows
MaxIters == 5
\* longest build.gradle (in lines) the coremod commands start from
MaxLines == 3
\* coremod commands run in a row
MaxOps == 2
\* `info` runs in a row
MaxRuns == 2
\* .java files in the source tree besides ModInfo.java, one directory
\* deeper each
NFiles == 2

\* ------------------------------------------------------------------------
\* Python string operations, on token sequences
\* ------------------------------------------------------------------------

\* s[i:] for a 1-based i (the rest of s from position i on)
From(s, i) == SubSeq(s, i, Len(s))

\* s.startswith(p), p a single token
StartsWith(s, p) == Len(s) >= 1 /\ s[1] = p

\* s.endswith(p), p a single token
EndsWith(s, p) == Len(s) >= 1 /\ s[Len(s)] = p

\* s.lower(), character by character
LowerChar(c) == IF c = "A" THEN "a" ELSE IF c = "B" THEN "b" ELSE c

Lower(s) == [i \in 1..Len(s) |-> LowerChar(s[i])]

\* s.replace(a, b) for a single-character a and a b of zero or one characters
RECURSIVE Replace(_, _, _)
Replace(s, a, b) ==
    IF s = <<>> THEN <<>>
    ELSE (IF s[1] = a THEN b ELSE <<s[1]>>) \o Replace(Tail(s), a, b)

\* s.lstrip(chars) / s.rstrip(chars) / s.strip(chars), chars a set
RECURSIVE LStrip(_, _)
LStrip(s, chars) ==
    IF s # <<>> /\ s[1] \in chars THEN LStrip(Tail(s), chars) ELSE s

RECURSIVE RStrip(_, _)
RStrip(s, chars) ==
    IF s # <<>> /\ s[Len(s)] \in chars
    THEN RStrip(SubSeq(s, 1, Len(s) - 1), chars) ELSE s

Strip(s, chars) == RStrip(LStrip(s, chars), chars)

\* the characters str.strip() removes (the line's newline is implicit)
Whitespace == {" "}

\* s.split(sep): the pieces of s between the occurrences of sep
RECURSIVE Split(_, _)
Split(s, sep) ==
    IF \A i \in 1..Len(s) : s[i] # sep THEN <<s>>
    ELSE LET i == CHOOSE k \in 1..Len(s) :
                     s[k] = sep /\ \A j \in 1..(k - 1) : s[j] # sep
         IN  <<SubSeq(s, 1, i - 1)>> \o Split(From(s, i + 1), sep)

\* s.rfind(c) + 1: the position after the last c, 0 when there is none
RFindEnd(s, c) ==
    IF \E i \in 1..Len(s) : s[i] = c
    THEN CHOOSE k \in 1..Len(s) : s[k] = c /\ \A j \in (k + 1)..Len(s) : s[j] # c
    ELSE 0

\* the positions of the lines of f that start with the token p
LinesWith(f, p) == {i \in 1..Len(f) : StartsWith(f[i], p)}

\* every sequence over S of length lo..hi
SeqsOf(S, lo, hi) == UNION {[1..n -> S] : n \in lo..hi}

\* ------------------------------------------------------------------------
\* find_root (modules/mcmod.py)
\* ------------------------------------------------------------------------

\* directory names of the modelled file system
DirNames == {"p", "q"}

\* an absolute POSIX path as tokens: "/" is <<"/">>, "/p/q" is <<"/","p","/","q">>
RECURSIVE PathOf(_)
PathOf(names) ==
    IF names = <<>> THEN <<"/">>
    ELSE IF Len(names) = 1 THEN <<"/", names[1]>>
    ELSE PathOf(SubSeq(names, 1, Len(names) - 1)) \o <<"/", names[Len(names)]>>

AbsPaths == {PathOf(n) : n \in SeqsOf(DirNames, 0, MaxDepth)}

\* os.path.dirname (posixpath): the head up to the last "/", with trailing
\* slashes removed unless the head is all slashes
Dirname(p) ==
    LET i    == RFindEnd(p, "/")
        head == SubSeq(p, 1, i)
    IN  IF head # <<>> /\ \E k \in 1..Len(head) : head[k] # "/"
        THEN RStrip(head, {"/"})
        ELSE head

\* os.path.exists(os.path.join(cur_path, "build.gradle"))
HasBuildGradleAt(p) == p \in fr_fs

\* find_root has not been called
FrIdle ==
    /\ fr_pc = "idle"
    /\ fr_fs = {}
    /\ fr_start = <<"/">>
    /\ fr_cur = <<"/">>
    /\ fr_iters = 0

\* find_root(cur_path): cur_path = os.path.abspath(cur_path)
FindRootEnter(start) ==
    /\ fr_pc = "idle"
    /\ fr_pc' = "loop"
    /\ fr_start' = start
    /\ fr_cur' = start
    /\ fr_iters' = 0
    /\ UNCHANGED <<fr_fs, fs_vars, cm_vars, info_vars>>

\* one run of the loop body: the while test found no build.gradle
FindRootIter ==
    /\ fr_pc = "loop"
    /\ ~HasBuildGradleAt(fr_cur)
    /\ fr_iters < MaxIters
    /\ fr_iters' = fr_iters + 1
    /\ fr_cur' = Dirname(fr_cur)
    /\ fr_pc' = IF Dirname(fr_cur) = <<>> THEN "exited" ELSE "loop"
    /\ UNCHANGED <<fr_fs, fr_start, fs_vars, cm_vars, info_vars>>

\* the while test found build.gradle: return cur_path
FindRootReturn ==
    /\ fr_pc = "loop"
    /\ HasBuildGradleAt(fr_cur)
    /\ fr_pc' = "returned"
    /\ UNCHANGED <<fr_fs, fr_start, fr_cur, fr_iters, fs_vars, cm_vars, info_vars>>


\* ------------------------------------------------------------------------
\* Names derived from the mod name (modules/mcmod.py, scripts/info.py)
\* ------------------------------------------------------------------------

\* name.lower().replace(" ", "")
modid_from_name(name) == Replace(Lower(name), " ", <<>>)

\* name.lower().replace(" ", "-")
archive_base_name_from_name(name) == Replace(Lower(name), " ", <<"-">>)

\* "com.piston.mc." + modid
group_from_modid(modid) == <<"com.piston.mc.">> \o modid

\* "com.piston.mc." + modid + ".coremod"
coremod_group_from_modid(modid) == <<"com.piston.mc.">> \o modid \o <<".coremod">>

\* ------------------------------------------------------------------------
\* mcmod.info: a JSON array of one object; json.dump / json.load of a string
\* ------------------------------------------------------------------------

\* the body of the JSON string literal json.dump writes for s
RECURSIVE JsonEscape(_)
JsonEscape(s) ==
    IF s = <<>> THEN <<>>
    ELSE (IF s[1] \in {"\"", "\\"} THEN <<"\\", s[1]>> ELSE <<s[1]>>)
         \o JsonEscape(Tail(s))

\* the string json.load reads from the body of a JSON string literal
RECURSIVE JsonUnescape(_)
JsonUnescape(t) ==
    IF t = <<>> THEN <<>>
    ELSE IF t[1] = "\\" /\ Len(t) >= 2
         THEN <<t[2]>> \o JsonUnescape(From(t, 3))
         ELSE <<t[1]>> \o JsonUnescape(Tail(t))

\* json.dump([info], f, indent=4): every key of the object, values escaped
JsonDump(info) == [k \in DOMAIN info |-> JsonEscape(info[k])]

\* json.load(f)[0]
JsonLoad(doc) == [k \in DOMAIN doc |-> JsonUnescape(doc[k])]

\* read_mcmod_info(root)
read_mcmod_info == JsonLoad(mcmod_info.doc)

\* ------------------------------------------------------------------------
\* build.gradle
\* ------------------------------------------------------------------------

\* an optional argument: None, or a string
None == [some |-> FALSE, val |-> <<>>]
Some(v) == [some |-> TRUE, val |-> v]
\* Python truthiness of an optional string: None and "" are false
Truthy(o) == o.some /\ o.val # <<>>

LDependencies == <<"dependencies {">>
LMarker == <<"// coremod">>
LPlugin == <<"apply plugin: 'forge'">>

\* the coremod section of write_build_gradle, as lines
CoremodSection(coremod_class) ==
    << LMarker,
       <<"jar {">>,
       <<"    manifest {">>,
       <<"        attributes 'FMLCorePlugin': '">> \o coremod_class \o <<"'">>,
       <<"        attributes 'FMLCorePluginContainsFMLMod': 'true'">>,
       <<"    }">>,
       <<"}">>,
       LMarker >>

\* the loop of write_build_gradle over the lines read, with its in_coremod
\* flag: the text written for the lines of `file`
RECURSIVE WbgLoop(_, _, _, _, _, _)
WbgLoop(file, in_coremod, version, group, archive_base_name, coremod_section) ==
    IF file = <<>> THEN <<>>
    ELSE
      LET line == file[1]
          Go(out, inc) ==
              out \o WbgLoop(Tail(file), inc, version, group, archive_base_name,
                             coremod_section)
          \* if not in_coremod: f.write(line)
          Keep(l) == IF in_coremod THEN <<>> ELSE <<l>>
      IN  IF Truthy(version) /\ StartsWith(line, "version")
          THEN Go(Keep(<<"version", " ", "=", " ", "'">> \o version.val \o <<"'">>),
                  in_coremod)
          ELSE IF Truthy(group) /\ StartsWith(line, "group")
          THEN Go(Keep(<<"group", " ", "=", " ", "'">> \o group.val \o <<"'">>),
                  in_coremod)
          ELSE IF Truthy(archive_base_name) /\ StartsWith(line, "archivesBaseName")
          THEN Go(Keep(<<"archivesBaseName", " ", "=", " ", "'">>
                       \o archive_base_name.val \o <<"'">>),
                  in_coremod)
          ELSE IF StartsWith(line, "// coremod")
          THEN Go(<<>>, ~in_coremod)
          ELSE IF StartsWith(line, "dependencies {")
          THEN Go(coremod_section \o Keep(line), in_coremod)
          ELSE Go(Keep(line), in_coremod)

\* write_build_gradle(root, version, group, archive_base_name, coremod_class):
\* the new content of build.gradle
write_build_gradle(file, version, group, archive_base_name, coremod_class) ==
    WbgLoop(file, FALSE, version, group, archive_base_name,
            IF Truthy(coremod_class) THEN CoremodSection(coremod_class.val)
            ELSE <<>>)

\* read_version(root): the first line that starts "version", the text
\* between its first and second "=", stripped of whitespace and of "'"
read_version(file) ==
    LET at == {i \in 1..Len(file) : StartsWith(file[i], "version")}
    IN  IF at = {} THEN [found |-> FALSE, ok |-> TRUE, val |-> <<>>]
        ELSE LET line  == file[CHOOSE n \in at : \A m \in at : n <= m]
                 parts == Split(line, "=")
             IN  IF Len(parts) < 2
                 THEN [found |-> TRUE, ok |-> FALSE, val |-> <<>>]
                 ELSE [found |-> TRUE, ok |-> TRUE,
                       val |-> Strip(Strip(parts[2], Whitespace), {"'"})]

\* ------------------------------------------------------------------------
\* The source and asset trees
\* ------------------------------------------------------------------------

\* A file of a tree is <<dir, name>>: dir the directory names below the
\* tree's top, name the file name as tokens (<<"Main", ".java">>).
ModInfoFile == <<<<>>, <<"ModInfo", ".java">>>>
NotesFile == <<<<"sub">>, <<"notes", ".txt">>>>

\* the i-th .java file: i - 1 directories deep
JavaFile(i) == <<[j \in 1..(i - 1) |-> "sub"], <<"F", ".java">>>>

\* one temp name for every file of a directory
TmpOf_Shared(file) == <<file[1], <<"edit", ".tmp">>>>

\* file + ".tmp"
TmpOf(file) == <<file[1], file[2] \o <<".tmp">>>>

\* os.path.join(root, ...) of a directory of the tree, after the
\* "src/main/java/com/piston/mc/" prefix: modid/dir1/dir2
RECURSIVE JoinDirs(_)
JoinDirs(dir) == IF dir = <<>> THEN <<>> ELSE <<"/", dir[1]>> \o JoinDirs(Tail(dir))

RootRel(modid, dir) == modid \o JoinDirs(dir)

\* "com.piston.mc." + root[len(MODINFO_PREFIX):].replace("/", ".")
\*                        .replace("\\", ".").strip(".")
PackageOf(modid, dir) ==
    <<"com.piston.mc.">>
    \o Strip(Replace(Replace(RootRel(modid, dir), "/", <<".">>), "\\", <<".">>),
             {"."})

\* f"package {package};\n"
PackageLine(package) == <<"package ">> \o package \o <<";">>

\* the text info.py writes to ModInfo.java
ModInfoJava(modid, version) ==
    << <<"package ", "com.piston.mc.">> \o modid \o <<";">>,
       <<"// This file is automatically generated with mcmod.py">>,
       <<"// Do not edit this file directly">>,
       <<"public interface ModInfo {">>,
       <<"    String Id = \"">> \o modid \o <<"\";">>,
       <<"    String Version = \"">> \o version \o <<"\";">>,
       <<"}">>,
       <<"    ">> >>

\* the content of a file after its first line
Rest(content) == IF content = <<>> THEN <<>> ELSE Tail(content)

\* f with file k set to content c / without file k
Put(f, k, c) == [x \in DOMAIN f \cup {k} |-> IF x = k THEN c ELSE f[x]]
Drop(f, k) == [x \in DOMAIN f \ {k} |-> f[x]]

\* os.rename(prefix + old, prefix + new) of a directory.  An empty id names
\* the prefix directory itself: it cannot be moved below itself, and as a
\* destination it is never empty.  An existing empty destination is
\* replaced on POSIX and refused on Windows (`replaces`); a non-empty one
\* is refused everywhere.
RenameDir(dirs, old, new, replaces) ==
    IF old = new
    THEN [ok |-> old = <<>> \/ old \in DOMAIN dirs, dirs |-> dirs]
    ELSE IF old = <<>> \/ new = <<>> \/ old \notin DOMAIN dirs
    THEN [ok |-> FALSE, dirs |-> dirs]
    ELSE IF new \in DOMAIN dirs /\ (DOMAIN dirs[new] # {} \/ ~replaces)
    THEN [ok |-> FALSE, dirs |-> dirs]
    ELSE [ok |-> TRUE,
          dirs |-> [d \in (DOMAIN dirs \ {old}) \cup {new} |->
                      IF d = new THEN dirs[old] ELSE dirs[d]]]

\* the outcomes the platform allows for a rename onto `new`
RenameModes(dirs, new) ==
    IF new \in DOMAIN dirs /\ DOMAIN dirs[new] = {} THEN BOOLEAN ELSE {TRUE}

\* ------------------------------------------------------------------------
\* info.py
\* ------------------------------------------------------------------------

NameValues ==
    {<<"a">>, <<"A", " ">>, <<"a", "b">>, <<"A", "b">>, <<"a", " ", "b">>,
     <<"b">>, <<" ">>}

TextValues ==
    {<<"1">>, <<"2">>, <<"1", "=", "2">>, <<"\"", "1", "\"">>,
     <<" ", "1", " ">>, <<"'", "1", "'">>}

Fields == {"name", "description", "desc", "credits", "url", "version",
           "Name", "foo"}

\* the command lines: `info`, `info F`, `info F V`
QueryArgs == [argc |-> 1, field |-> "", value |-> <<>>]

ArgvSet ==
    {QueryArgs}
    \cup {[argc |-> 2, field |-> "name", value |-> <<>>]}
    \cup {[argc |-> 3, field |-> f, value |-> v] :
            f \in Fields, v \in NameValues \cup TextValues}

NoLoc ==
    [info |-> <<>>, name |-> <<>>, description |-> <<>>, credits |-> <<>>,
     url |-> <<>>, version |-> None, old_modid |-> <<>>, modid |-> <<>>,
     achive_base_name |-> <<>>, group |-> <<>>]

NoPrint ==
    [name |-> <<>>, description |-> <<>>, credits |-> <<>>, url |-> <<>>,
     version |-> None, modid |-> <<>>, archive |-> <<>>, group |-> <<>>]

NoJar == [built |-> FALSE, archive |-> <<>>, version |-> None]

NoFs == [mcmod_info |-> [exists |-> FALSE, doc |-> <<>>],
         build_gradle |-> <<>>, src |-> <<>>, assets |-> <<>>]

NoPrev == [argv |-> QueryArgs, exit_code |-> -1]

\* no coremod command has run
CmNoOp == [op |-> "none", cls |-> <<>>, before |-> <<>>]

CmIdle == cm_ops = 0 /\ cm_last = CmNoOp

\* no `info` or `build` has run
InfoIdle ==
    /\ pc = "idle"
    /\ argv = QueryArgs
    /\ loc = NoLoc
    /\ exit_code = -1
    /\ printed = NoPrint
    /\ tasks = <<>>
    /\ jar = NoJar
    /\ fs0 = NoFs
    /\ walked = <<>>
    /\ writers = <<>>
    /\ runs = 0
    /\ prev = NoPrev

Fs == [mcmod_info |-> mcmod_info, build_gradle |-> build_gradle,
       src |-> src, assets |-> assets]

SET == argv.argc # 1

\* the version scan of the read phase: the first line that starts
\* "version", the text between its first and second "=", stripped of
\* whitespace and of double quotes
InfoScanVersion(file) ==
    LET at == {i \in 1..Len(file) : StartsWith(file[i], "version")}
    IN  IF at = {} THEN [found |-> FALSE, ok |-> TRUE, val |-> <<>>]
        ELSE LET line  == file[CHOOSE n \in at : \A m \in at : n <= m]
                 parts == Split(line, "=")
             IN  IF Len(parts) < 2
                 THEN [found |-> TRUE, ok |-> FALSE, val |-> <<>>]
                 ELSE [found |-> TRUE, ok |-> TRUE,
                       val |-> Strip(Strip(parts[2], Whitespace), {"\""})]

\* the line info.py writes for a line of build.gradle
InfoGradleLine(line, version, group, achive_base_name) ==
    IF StartsWith(line, "version")
    THEN <<"version", " ", "=", " ", "\"">> \o version.val \o <<"\"">>
    ELSE IF StartsWith(line, "group")
    THEN <<"group", " ", "=", " ", "\"">> \o group \o <<"\"">>
    ELSE IF StartsWith(line, "archivesBaseName")
    THEN <<"archivesBaseName", " ", "=", " ", "\"">> \o achive_base_name \o <<"\"">>
    ELSE line

\* a dispatch with no else branch: every field name is let through
FieldKnown_NoElse(field) == TRUE

\* whether the field dispatch knows the field name (its if/elif tests)
FieldKnown(field) ==
    \/ field = "name"
    \/ field = "description" \/ field = "desc"
    \/ field = "credits"
    \/ field = "url"
    \/ field = "version"

\* the script's variables after the field dispatch
Dispatched(l, field, value) ==
    IF field = "name" THEN [l EXCEPT !.name = value]
    ELSE IF field = "description" \/ field = "desc"
    THEN [l EXCEPT !.description = value]
    ELSE IF field = "credits" THEN [l EXCEPT !.credits = value]
    ELSE IF field = "url" THEN [l EXCEPT !.url = value]
    ELSE IF field = "version" THEN [l EXCEPT !.version = Some(value)]
    ELSE l

\* the cascade test on the names instead of the ids
CascadeNeeded_ByName(l) == l.info["name"] # l.name

\* old_modid != modid
CascadeNeeded(l) == l.old_modid # l.modid

\* the run ends with exit code c
Exit(c) == pc' = "exited" /\ exit_code' = c

\* `mcmod info ...` starts: the usage check.  The command sequences
\* explored are one run of any kind followed by queries: a run that sets a
\* field (or fails the usage check) is the first run of its sequence.
InfoStart(args) ==
    /\ pc \in {"idle", "exited"}
    /\ runs < MaxRuns
    /\ args.argc # 1 => runs = 0
    /\ runs' = runs + 1
    /\ argv' = args
    /\ prev' = [argv |-> argv, exit_code |-> exit_code]
    /\ fs0' = Fs
    /\ loc' = NoLoc
    /\ printed' = NoPrint
    /\ tasks' = <<>>
    /\ walked' = <<>>
    /\ writers' = <<>>
    /\ jar' = NoJar
    /\ IF args.argc \notin {1, 3}
       THEN Exit(1)
       ELSE pc' = "read" /\ exit_code' = -1
    /\ UNCHANGED <<fs_vars, fr_vars, cm_vars>>

\* the read phase: mcmod.info, the version line of build.gradle, old_modid
InfoRead ==
    /\ pc = "read"
    /\ LET v == InfoScanVersion(build_gradle)
       IN  IF ~mcmod_info.exists \/ ~v.ok
           THEN Exit(1) /\ UNCHANGED loc
           ELSE LET info == JsonLoad(mcmod_info.doc)
                IN  /\ loc' = [loc EXCEPT
                                 !.info = info,
                                 !.name = info["name"],
                                 !.description = info["description"],
                                 !.credits = info["credits"],
                                 !.url = info["url"],
                                 !.version = IF v.found THEN Some(v.val) ELSE None,
                                 !.old_modid = Replace(Lower(info["name"]), " ", <<>>)]
                    /\ pc' = "dispatch"
                    /\ UNCHANGED exit_code
    /\ UNCHANGED <<argv, printed, tasks, jar, fs0, walked, writers, runs, prev>>
    /\ UNCHANGED <<fs_vars, fr_vars, cm_vars>>

\* the field dispatch, the derived fields, and the query output
InfoDispatch ==
    /\ pc = "dispatch"
    /\ IF SET /\ ~FieldKnown(argv.field)
       THEN Exit(1) /\ UNCHANGED <<loc, printed>>
       ELSE LET l1 == IF SET THEN Dispatched(loc, argv.field, argv.value) ELSE loc
                modid == Replace(Lower(l1.name), " ", <<>>)
                l2 == [l1 EXCEPT
                         !.modid = modid,
                         !.achive_base_name = Replace(Lower(l1.name), " ", <<"-">>),
                         !.group = <<"com.piston.mc.">> \o modid]
            IN  /\ loc' = l2
                /\ IF SET
                   THEN pc' = "write_info" /\ UNCHANGED <<exit_code, printed>>
                   ELSE /\ printed' =
                             [name |-> l2.name, description |-> l2.description,
                              credits |-> l2.credits, url |-> l2.url,
                              version |-> l2.version,
                              modid |-> IF l2.version.some THEN l2.modid ELSE <<>>,
                              archive |-> IF l2.version.some
                                          THEN l2.achive_base_name ELSE <<>>,
                              group |-> IF l2.version.some THEN l2.group ELSE <<>>]
                        /\ Exit(IF l2.version.some THEN 0 ELSE 1)
    /\ UNCHANGED <<argv, tasks, jar, fs0, walked, writers, runs, prev>>
    /\ UNCHANGED <<fs_vars, fr_vars, cm_vars>>

\* write fields: mcmod.info
InfoWriteInfo ==
    /\ pc = "write_info"
    /\ LET info == [k \in DOMAIN loc.info \cup {"modid"} |->
                      IF k = "name" THEN loc.name
                      ELSE IF k = "description" THEN loc.description
                      ELSE IF k = "credits" THEN loc.credits
                      ELSE IF k = "url" THEN loc.url
                      ELSE IF k = "modid" THEN loc.modid
                      ELSE loc.info[k]]
       IN  mcmod_info' = [exists |-> TRUE, doc |-> JsonDump(info)]
    /\ pc' = "write_gradle"
    /\ UNCHANGED <<build_gradle, src, assets>>
    /\ UNCHANGED <<argv, loc, exit_code, printed, tasks, jar, fs0, walked,
                   writers, runs, prev>>
    /\ UNCHANGED <<fr_vars, cm_vars>>

\* write fields: build.gradle; then the test for the rename cascade
InfoWriteGradle ==
    /\ pc = "write_gradle"
    /\ build_gradle' =
          [i \in 1..Len(build_gradle) |->
             InfoGradleLine(build_gradle[i], loc.version, loc.group,
                            loc.achive_base_name)]
    /\ IF CascadeNeeded(loc)
       THEN pc' = "rename_src" /\ UNCHANGED exit_code
       ELSE Exit(0)
    /\ UNCHANGED <<mcmod_info, src, assets>>
    /\ UNCHANGED <<argv, loc, printed, tasks, jar, fs0, walked, writers, runs, prev>>
    /\ UNCHANGED <<fr_vars, cm_vars>>

\* os.rename(MODINFO_PREFIX + old_modid, modinfo)
InfoRenameSrc ==
    /\ pc = "rename_src"
    /\ \E replaces \in RenameModes(src, loc.modid) :
          LET r == RenameDir(src, loc.old_modid, loc.modid, replaces)
          IN  /\ src' = r.dirs
              /\ IF r.ok THEN pc' = "rename_asset" /\ UNCHANGED exit_code
                 ELSE Exit(1)
    /\ UNCHANGED <<mcmod_info, build_gradle, assets>>
    /\ UNCHANGED <<argv, loc, printed, tasks, jar, fs0, walked, writers, runs, prev>>
    /\ UNCHANGED <<fr_vars, cm_vars>>

\* os.rename(ASSET_PREFIX + old_modid, ASSET_PREFIX + modid)
InfoRenameAsset ==
    /\ pc = "rename_asset"
    /\ \E replaces \in RenameModes(assets, loc.modid) :
          LET r == RenameDir(assets, loc.old_modid, loc.modid, replaces)
          IN  /\ assets' = r.dirs
              /\ IF r.ok THEN pc' = "write_modinfo" /\ UNCHANGED exit_code
                 ELSE Exit(1)
    /\ UNCHANGED <<mcmod_info, build_gradle, src>>
    /\ UNCHANGED <<argv, loc, printed, tasks, jar, fs0, walked, writers, runs, prev>>
    /\ UNCHANGED <<fr_vars, cm_vars>>

\* ModInfo.java is opened for writing (created or truncated) and the text,
\* which names modid and version, is written
InfoWriteModInfo ==
    /\ pc = "write_modinfo"
    /\ IF loc.version.some
       THEN /\ src' = [src EXCEPT ![loc.modid] =
                         Put(@, ModInfoFile, ModInfoJava(loc.modid, loc.version.val))]
            /\ pc' = "walk"
            /\ UNCHANGED exit_code
       ELSE /\ src' = [src EXCEPT ![loc.modid] = Put(@, ModInfoFile, <<>>)]
            /\ Exit(1)
    /\ UNCHANGED <<mcmod_info, build_gradle, assets>>
    /\ UNCHANGED <<argv, loc, printed, tasks, jar, fs0, walked, writers, runs, prev>>
    /\ UNCHANGED <<fr_vars, cm_vars>>

\* os.walk(modinfo): one task (file, package) per .java file
InfoWalk ==
    /\ pc = "walk"
    /\ LET tree == src[loc.modid]
           java == {f \in DOMAIN tree : EndsWith(f[2], ".java")}
       IN  /\ tasks' = [f \in java |->
                          [package |-> PackageOf(loc.modid, f[1]), pc |-> "start"]]
           /\ walked' = tree
           /\ writers' = [f \in DOMAIN tree \cup {TmpOf(g) : g \in java} |-> {}]
    /\ pc' = "pool"
    /\ UNCHANGED <<argv, loc, exit_code, printed, jar, fs0, runs, prev>>
    /\ UNCHANGED <<fs_vars, fr_vars, cm_vars>>

\* ---- edit_java_package((file, package)), one step at a time ----

TaskAt(t, where) == pc = "pool" /\ t \in DOMAIN tasks /\ tasks[t].pc = where

TaskGoes(t, where) == tasks' = [tasks EXCEPT ![t].pc = where]

Wrote(t, file) ==
    writers' = [f \in DOMAIN writers \cup {file} |->
                  IF f = file
                  THEN (IF f \in DOMAIN writers THEN writers[f] ELSE {}) \cup {t}
                  ELSE writers[f]]

TaskFrame ==
    /\ UNCHANGED <<mcmod_info, build_gradle, assets>>
    /\ UNCHANGED <<pc, argv, loc, exit_code, printed, jar, fs0, walked, runs, prev>>
    /\ UNCHANGED <<fr_vars, cm_vars>>

\* open(file, "r"), f.readline(), open(file + ".tmp", "w")
TaskOpen(t) ==
    /\ TaskAt(t, "start")
    /\ LET tree == src[loc.modid]
       IN  IF t \in DOMAIN tree
           THEN /\ src' = [src EXCEPT ![loc.modid] = Put(tree, TmpOf(t), <<>>)]
                /\ Wrote(t, TmpOf(t))
                /\ TaskGoes(t, "opened")
           ELSE /\ TaskGoes(t, "failed")
                /\ UNCHANGED <<src, writers>>
    /\ TaskFrame

\* f2.write(f"package {package};\n")
TaskWriteHeader(t) ==
    /\ TaskAt(t, "opened")
    /\ src' = [src EXCEPT ![loc.modid] =
                 Put(@, TmpOf(t), <<PackageLine(tasks[t].package)>>)]
    /\ Wrote(t, TmpOf(t))
    /\ TaskGoes(t, "header")
    /\ TaskFrame

\* shutil.copyfileobj(f, f2): the rest of the file, after its first line
TaskCopy(t) ==
    /\ TaskAt(t, "header")
    /\ LET tree == src[loc.modid]
           sofar == IF TmpOf(t) \in DOMAIN tree THEN tree[TmpOf(t)] ELSE <<>>
           rest  == IF t \in DOMAIN tree THEN Rest(tree[t]) ELSE <<>>
       IN  src' = [src EXCEPT ![loc.modid] = Put(tree, TmpOf(t), sofar \o rest)]
    /\ Wrote(t, TmpOf(t))
    /\ TaskGoes(t, "copied")
    /\ TaskFrame

\* os.remove(file)
TaskRemove(t) ==
    /\ TaskAt(t, "copied")
    /\ LET tree == src[loc.modid]
       IN  IF t \in DOMAIN tree
           THEN /\ src' = [src EXCEPT ![loc.modid] = Drop(tree, t)]
                /\ Wrote(t, t)
                /\ TaskGoes(t, "removed")
           ELSE /\ TaskGoes(t, "failed")
                /\ UNCHANGED <<src, writers>>
    /\ TaskFrame

\* os.rename(file + ".tmp", file); return file
TaskRename(t) ==
    /\ TaskAt(t, "removed")
    /\ LET tree == src[loc.modid]
       IN  IF TmpOf(t) \in DOMAIN tree /\ t \notin DOMAIN tree
           THEN /\ src' = [src EXCEPT ![loc.modid] =
                             Put(Drop(tree, TmpOf(t)), t, tree[TmpOf(t)])]
                /\ Wrote(t, t)
                /\ TaskGoes(t, "done")
           ELSE /\ TaskGoes(t, "failed")
                /\ UNCHANGED <<src, writers>>
    /\ TaskFrame

\* the pool has delivered every result, or raised a task's error
InfoPoolJoin ==
    /\ pc = "pool"
    /\ LET failed == \E t \in DOMAIN tasks : tasks[t].pc = "failed"
       IN  /\ failed \/ \A t \in DOMAIN tasks : tasks[t].pc = "done"
           /\ Exit(IF failed THEN 1 ELSE 0)
    /\ UNCHANGED <<argv, loc, printed, tasks, jar, fs0, walked, writers, runs, prev>>
    /\ UNCHANGED <<fs_vars, fr_vars, cm_vars>>

\* build.py: the jar name printed after the gradle build.  Enabled where
\* the script gets that far: mcmod.info opens and read_version does not
\* raise on a version line without "=".
Build ==
    /\ pc \in {"idle", "exited"}
    /\ ~jar.built
    /\ mcmod_info.exists
    /\ LET name == read_mcmod_info["name"]
           archive_base_name == archive_base_name_from_name(name)
           version == read_version(build_gradle)
       IN  /\ version.ok
           /\ jar' = [built |-> TRUE, archive |-> archive_base_name,
                      version |-> IF version.found THEN Some(version.val) ELSE None]
    /\ UNCHANGED <<pc, argv, loc, exit_code, printed, tasks, fs0, walked,
                   writers, runs, prev>>
    /\ UNCHANGED <<fs_vars, fr_vars, cm_vars>>

\* ---- the projects the runs start from ----

InitName == <<"A", "b">>
OtherId == <<"b">>

Info0 ==
    [name |-> InitName, description |-> <<"1">>, credits |-> <<"1">>,
     url |-> <<"1">>, modid |-> modid_from_name(InitName),
     logoFile |-> <<"\"">>]

VersionLines ==
    { <<"version", " ", "=", " ", "'", "1", "'">>,
      <<"version", " ", "=", " ", "\"", "1", "\"">>,
      <<"version", " ", "\"", "1", "\"">> }

GradleTail ==
    << <<"group", " ", "=", " ", "'">> \o group_from_modid(modid_from_name(InitName))
          \o <<"'">>,
       <<"archivesBaseName", " ", "=", " ", "'">>
          \o archive_base_name_from_name(InitName) \o <<"'">>,
       LMarker, <<"jar {">>, LMarker,
       LDependencies >>

GradleFiles ==
    {<<LPlugin>> \o GradleTail} \cup {<<LPlugin, v>> \o GradleTail : v \in VersionLines}

JavaContent(modid, i) ==
    IF i % 3 = 1
    THEN << PackageLine(PackageOf(modid, JavaFile(i)[1])), <<"class F {}">> >>
    ELSE IF i % 3 = 2
    THEN << <<"// no package line">>, <<"class F {}">> >>
    ELSE <<>>

NotesText == << <<"notes">> >>

Tree0(modid) ==
    [f \in {ModInfoFile, NotesFile} \cup {JavaFile(i) : i \in 1..NFiles} |->
        IF f = ModInfoFile THEN ModInfoJava(modid, <<"1">>)
        ELSE IF f = NotesFile THEN NotesText
        ELSE JavaContent(modid, CHOOSE i \in 1..NFiles : JavaFile(i) = f)]

\* a directory besides the mod's own: absent, empty, or holding a file
OtherDirs ==
    { <<>>, [d \in {OtherId} |-> <<>>],
      [d \in {OtherId} |-> [f \in {NotesFile} |-> NotesText]] }

WithDir(dirs, id, tree) == [d \in DOMAIN dirs \cup {id} |-> IF d = id THEN tree ELSE dirs[d]]

InfoInit ==
    /\ FrIdle
    /\ CmIdle
    /\ InfoIdle
    /\ mcmod_info \in {[exists |-> FALSE, doc |-> <<>>],
                       [exists |-> TRUE, doc |-> JsonDump(Info0)]}
    /\ build_gradle \in GradleFiles
    /\ \E o \in OtherDirs :
          src = WithDir(o, modid_from_name(InitName), Tree0(modid_from_name(InitName)))
    /\ \E o \in OtherDirs :
          assets = WithDir(o, modid_from_name(InitName), [f \in {NotesFile} |-> NotesText])

InfoNext ==
    \/ \E args \in ArgvSet : InfoStart(args)
    \/ InfoRead
    \/ InfoDispatch
    \/ InfoWriteInfo
    \/ InfoWriteGradle
    \/ InfoRenameSrc
    \/ InfoRenameAsset
    \/ InfoWriteModInfo
    \/ InfoWalk
    \/ \E t \in DOMAIN tasks : TaskOpen(t)
    \/ \E t \in DOMAIN tasks : TaskWriteHeader(t)
    \/ \E t \in DOMAIN tasks : TaskCopy(t)
    \/ \E t \in DOMAIN tasks : TaskRemove(t)
    \/ \E t \in DOMAIN tasks : TaskRename(t)
    \/ InfoPoolJoin
    \/ Build

Spec == InfoInit /\ [][InfoNext]_vars


\* ------------------------------------------------------------------------
\* Properties of info.py and build.py
\* ------------------------------------------------------------------------

\* the renamed source tree the pool works on
PoolTree == src[loc.modid]

\* the content edit_java_package gives file t
Rewritten(t) == <<PackageLine(tasks[t].package)>> \o Rest(walked[t])

\* C1: the per-file rewrite is an atomic replace: at every point of a task
\* the file's own path holds the complete original content or the complete
\* rewritten content (never missing, empty or partial), and the original
\* is removed only once the temp file holds the complete rewritten content.
C1_AtomicReplace ==
    pc = "pool" =>
       \A t \in DOMAIN tasks :
          /\ t \in DOMAIN PoolTree
          /\ PoolTree[t] \in {walked[t], Rewritten(t)}
          /\ tasks[t].pc = "removed" =>
                /\ TmpOf(t) \in DOMAIN PoolTree
                /\ PoolTree[TmpOf(t)] = Rewritten(t)

\* the run got as far as the rename cascade
CascadeStarted ==
    /\ argv.argc = 3
    /\ loc.group # <<>>
    /\ loc.modid # loc.old_modid

\* C2: when src/main/java/com/piston/mc/<new id> or
\* src/main/resources/assets/<new id> already exists, the cascade fails
\* before any directory is renamed: the run ends with a non-zero exit code,
\* the source and asset directories are as they were, and mcmod.info and
\* build.gradle stay as written.
C2_ConflictAbortsBeforeRename ==
    ( /\ pc = "exited"
      /\ CascadeStarted
      /\ loc.modid \in DOMAIN fs0.src \cup DOMAIN fs0.assets )
    => /\ exit_code = 1
       /\ src = fs0.src
       /\ assets = fs0.assets
       /\ JsonLoad(mcmod_info.doc)["name"] = loc.name
       /\ JsonLoad(mcmod_info.doc)["modid"] = loc.modid

\* C3: when build.gradle has no line that starts "version", every `info`
\* run (query, or set of any field) fails before anything is changed: no
\* file or directory differs from the start of the run, and the exit code
\* is not 0.
C3_NoVersionLineFails ==
    ( /\ pc # "idle"
      /\ argv.argc \in {1, 3}
      /\ LinesWith(fs0.build_gradle, "version") = {} )
    => /\ Fs = fs0
       /\ pc = "exited" => exit_code # 0

RECURSIVE Dotted(_)
Dotted(dir) == IF dir = <<>> THEN <<>> ELSE <<".", dir[1]>> \o Dotted(Tail(dir))

ExpectedPackage(modid, dir) == <<"com.piston.mc.">> \o modid \o Dotted(dir)

\* C5: whatever the interleaving of the pool's tasks, no file (temp files
\* included) is ever written by more than one task, and once the cascade
\* has completed every .java file of the renamed tree starts with
\* `package <group prefix>.<its directory below the source-root prefix>;`
\* and continues with what followed its first line before.
C5_PoolRewritesEveryFile ==
    /\ \A f \in DOMAIN writers : Cardinality(writers[f]) <= 1
    /\ (pc = "exited" /\ exit_code = 0 /\ DOMAIN tasks # {}) =>
          \A f \in DOMAIN walked :
             EndsWith(f[2], ".java") =>
                /\ f \in DOMAIN PoolTree
                /\ PoolTree[f] =
                      << <<"package ">> \o ExpectedPackage(loc.modid, f[1]) \o <<";">> >>
                      \o Rest(walked[f])

\* a completed cascade over at least three files, one below the top
\* directory, that changed a first line
C5_Witness ==
    /\ pc = "exited"
    /\ exit_code = 0
    /\ Cardinality(DOMAIN tasks) >= 3
    /\ \E f \in DOMAIN tasks : f[1] # <<>> /\ PoolTree[f] # walked[f]
    /\ \A f \in DOMAIN tasks : writers[f] = {f} /\ writers[TmpOf(f)] = {f}

\* C6: a successful set runs the cascade exactly when the module id of the
\* name written differs from the module id of the name read: with the id
\* unchanged no directory is renamed, ModInfo.java is not regenerated and
\* no source file is rewritten (the source and asset trees are as before);
\* with a new id both directories carry the new id when the run succeeds.
C6_CascadeIffModidChanges ==
    (pc = "exited" /\ argv.argc = 3 /\ exit_code = 0) =>
       LET old == modid_from_name(JsonLoad(fs0.mcmod_info.doc)["name"])
           new == modid_from_name(JsonLoad(mcmod_info.doc)["name"])
       IN  IF old = new
           THEN src = fs0.src /\ assets = fs0.assets
           ELSE /\ old \notin DOMAIN src /\ new \in DOMAIN src
                /\ old \notin DOMAIN assets /\ new \in DOMAIN assets
                /\ DOMAIN tasks # {}
                /\ \A t \in DOMAIN tasks : tasks[t].pc = "done"

\* a successful `info name` that changed the name but not the module id
C6_Witness ==
    /\ pc = "exited"
    /\ argv.argc = 3
    /\ argv.field = "name"
    /\ exit_code = 0
    /\ JsonLoad(mcmod_info.doc)["name"] # JsonLoad(fs0.mcmod_info.doc)["name"]
    /\ mcmod_info # fs0.mcmod_info
    /\ src = fs0.src

\* what query mode printed for a field
PrintedField(field) ==
    IF field = "name" THEN printed.name
    ELSE IF field \in {"description", "desc"} THEN printed.description
    ELSE IF field = "credits" THEN printed.credits
    ELSE IF field = "url" THEN printed.url
    ELSE printed.version.val

\* a successful query run that follows a successful set run
QueryAfterSet ==
    /\ pc = "exited"
    /\ argv.argc = 1
    /\ exit_code = 0
    /\ prev.argv.argc = 3
    /\ prev.exit_code = 0

\* C7: round trip: after a successful `info X V`, an `info` query reports
\* X as V, for every field X and every value V (for version also when V
\* holds "=", quote characters or surrounding whitespace).
C7_RoundTrip ==
    QueryAfterSet => PrintedField(prev.argv.field) = prev.argv.value

\* C10: after a successful `info` set, read_version (which names the jar
\* in `build`) returns the version that `info` query mode reports.
C10_VersionReadersAgree ==
    (QueryAfterSet /\ jar.built) =>
       /\ jar.version.some
       /\ jar.version.val = printed.version.val

\* ------------------------------------------------------------------------
\* coremod.py
\* ------------------------------------------------------------------------

ClassNames == {<<"X">>, <<"Y">>}

CmLines == {LDependencies, LMarker, LPlugin}

\* the mod of the coremod runs
CmInfo ==
    [name |-> <<"A", " ", "b">>, description |-> <<"1">>, credits |-> <<"1">>,
     url |-> <<"1">>, modid |-> <<"a", "b">>, logoFile |-> <<"1">>]

\* coremod.py enable(classname)
CoremodEnable(classname) ==
    /\ cm_ops < MaxOps
    /\ mcmod_info.exists
    /\ LET name == read_mcmod_info["name"]
           modid == modid_from_name(name)
           coremod_group == coremod_group_from_modid(modid)
           coremod_class == coremod_group \o <<".">> \o classname
       IN  /\ build_gradle' =
                write_build_gradle(build_gradle, None, None, None, Some(coremod_class))
           /\ cm_last' = [op |-> "enable", cls |-> coremod_class, before |-> build_gradle]
    /\ cm_ops' = cm_ops + 1
    /\ UNCHANGED <<mcmod_info, src, assets, fr_vars, info_vars>>

\* coremod.py disable()
CoremodRemove ==
    /\ cm_ops < MaxOps
    /\ build_gradle' = write_build_gradle(build_gradle, None, None, None, None)
    /\ cm_last' = [op |-> "remove", cls |-> <<>>, before |-> build_gradle]
    /\ cm_ops' = cm_ops + 1
    /\ UNCHANGED <<mcmod_info, src, assets, fr_vars, info_vars>>

CmInit ==
    /\ FrIdle
    /\ InfoIdle
    /\ CmIdle
    /\ mcmod_info = [exists |-> TRUE, doc |-> JsonDump(CmInfo)]
    /\ build_gradle \in SeqsOf(CmLines, 0, MaxLines)
    /\ src = <<>>
    /\ assets = <<>>

CmNext ==
    \/ \E c \in ClassNames : CoremodEnable(c)
    \/ CoremodRemove

SpecCoremod == CmInit /\ [][CmNext]_vars

\* f without the lines at the positions in drop
RECURSIVE Without(_, _, _)
Without(f, drop, i) ==
    IF i > Len(f) THEN <<>>
    ELSE (IF i \in drop THEN <<>> ELSE <<f[i]>>) \o Without(f, drop, i + 1)

\* the lines of f outside its coremod blocks: a marker line opens a block
\* that runs to the next marker line; a marker with no partner is only
\* itself
RECURSIVE OutsideBlocks(_)
OutsideBlocks(f) ==
    IF f = <<>> THEN <<>>
    ELSE IF StartsWith(f[1], "// coremod")
         THEN LET later == LinesWith(Tail(f), "// coremod")
              IN  IF later = {} THEN OutsideBlocks(Tail(f))
                  ELSE LET k == CHOOSE n \in later : \A m \in later : n <= m
                       IN  OutsideBlocks(From(Tail(f), k + 1))
         ELSE <<f[1]>> \o OutsideBlocks(Tail(f))

\* C8: after `coremod enable C` build.gradle holds exactly one coremod
\* block (marker, manifest declaring C, marker), immediately before the
\* first line `dependencies {`, any earlier block replaced; after `coremod
\* remove` it holds no marker line and no block interior; either way the
\* lines outside the block are unchanged and in their original order.
C8_CoremodBlock ==
    /\ cm_last.op = "enable" =>
          LET sec == CoremodSection(cm_last.cls)
              deps == LinesWith(build_gradle, "dependencies {")
              first == CHOOSE n \in deps : \A m \in deps : n <= m
          IN  /\ Cardinality(LinesWith(build_gradle, "// coremod")) = 2
              /\ deps # {}
              /\ first > Len(sec)
              /\ SubSeq(build_gradle, first - Len(sec), first - 1) = sec
              /\ Without(build_gradle, (first - Len(sec))..(first - 1), 1)
                    = OutsideBlocks(cm_last.before)
    /\ cm_last.op = "remove" =>
          /\ LinesWith(build_gradle, "// coremod") = {}
          /\ build_gradle = OutsideBlocks(cm_last.before)

FrInit ==
    /\ CmIdle
    /\ InfoIdle
    /\ mcmod_info = [exists |-> FALSE, doc |-> <<>>]
    /\ build_gradle = <<>>
    /\ src = <<>>
    /\ assets = <<>>
    /\ fr_pc = "idle"
    /\ fr_fs \in SUBSET AbsPaths
    /\ fr_start = <<"/">>
    /\ fr_cur = <<"/">>
    /\ fr_iters = 0

FrNext ==
    \/ \E start \in AbsPaths : FindRootEnter(start)
    \/ FindRootIter
    \/ FindRootReturn

SpecFindRoot == FrInit /\ [][FrNext]_vars

\* the ancestors of p, p itself included
RECURSIVE Ancestors(_)
Ancestors(p) == IF Dirname(p) = p THEN {p} ELSE {p} \cup Ancestors(Dirname(p))

\* C9: find_root terminates for every starting directory: it returns the
\* nearest ancestor (or the start itself) that holds build.gradle, and when
\* no ancestor holds one it stops with exit code 1 once the file system
\* root has been tried, so the loop body runs at most once per directory
\* between the start and the root.
C9_FindRootTerminates ==
    /\ fr_pc = "returned" =>
          /\ fr_cur \in Ancestors(fr_start) /\ HasBuildGradleAt(fr_cur)
          /\ \A a \in Ancestors(fr_start) :
                HasBuildGradleAt(a) => Len(a) <= Len(fr_cur)
    /\ fr_pc = "exited" => \A a \in Ancestors(fr_start) : ~HasBuildGradleAt(a)
    /\ fr_iters <= Cardinality(Ancestors(fr_start))

=============================================================================
